---- MODULE Spec2Model ----
(***************************************************************************)
(* A model of gensim's similarity server index (SimIndex) in               *)
(* src/gensim/similarities/simserver.py: the identity maps id2pos/pos2id,  *)
(* the precomputed "most similar" lists id2sims, the permanent vector      *)
(* store qindex, and the operations index_documents, delete, sims_by_id    *)
(* and sims_by_doc; and of the SimServer around it: its model, its buffer  *)
(* of fresh documents, and add_documents, train, index, drop_index and     *)
(* find_similar.                                                           *)
(*                                                                         *)
(* Documents are represented by the vector the semantic model gives them.  *)
(* The Similarity index stores unit vectors and scores by dot product      *)
(* (cosine).  To stay in the integers every vector of Vecs has Euclidean   *)
(* norm 5, and a score is the integer dot product, i.e. 25 * cosine.       *)
(* Positions are 0-based as in the code; qindex[p + 1] is the vector       *)
(* stored at position p.                                                   *)
(***************************************************************************)
EXTENDS Integers, Sequences, FiniteSets, TLC

VARIABLES
    precompute,   \* SimIndex.precompute, fixed at construction
    qindex,       \* the permanent Similarity index: the stored vectors
    id2pos,       \* SimIndex.id2pos
    pos2id,       \* SimIndex.pos2id
    id2sims,      \* SimIndex.id2sims
    length,       \* SimIndex.length
    last,         \* the last mutating call: its arguments, outcome, state before
    query,        \* the last query answered since the last mutating step
    raised,       \* some mutating call has raised an exception so far
    calls,        \* the mutating calls made so far: <<operation, ids>> each
    pc,           \* position of an in-flight index_documents call
    pending,      \* arguments and pre-state of the in-flight call
    simmodel,     \* SimServer.simmodel is set (not None)
    simindex,     \* SimServer.simindex is set; its fields are the variables above
    fresh_docs,   \* SimServer.fresh_docs: id -> document
    added,        \* the documents buffered since the last flush, in order
    served        \* the last SimServer call that changes state, and its outcome

\* the state of the SimServer around the index
srv == <<simmodel, simindex, fresh_docs, added, served>>

vars == <<precompute, qindex, id2pos, pos2id, id2sims, length,
          last, query, raised, calls, pc, pending,
          simmodel, simindex, fresh_docs, added, served>>

(***************************************************************************)
(* Bounds of the model.                                                    *)
(***************************************************************************)
\* the store never grows beyond this many positions
MaxLen == 4
\* the largest batch handed to index_documents
MaxBatch == 3
\* the most ids handed to one delete call
MaxDel == 2
\* the number of mutating calls (index_documents, delete) of a run
MaxCalls == 3
\* the longest sequence of documents a client sends in one call
MaxCorpus == 2
\* the most documents buffered between two flushes
MaxAdded == 3

\* SimIndex.TOP_SIMS (100 in the source), scaled down so that the small
\* stores of the model reach the cap.
TOP_SIMS == 2

DocIds == {"a", "b", "c"}

\* unit vectors scaled by 5: [1,0], [0,1] and [-0.6,0.8]
Vecs == {<<5, 0>>, <<0, 5>>, <<-3, 4>>}

\* the documents clients submit, as <<id, vector>>: id "a" comes in two
\* versions, and "a" and "c" can hold the same vector
Docs == {<<"a", <<5, 0>>>>, <<"a", <<-3, 4>>>>, <<"b", <<0, 5>>>>, <<"c", <<5, 0>>>>}

\* the order in which fresh_docs.keys() lists the ids of a batch
KeyOrder == [a |-> 1, b |-> 2, c |-> 3]

(***************************************************************************)
(* Helpers for Python dicts and numpy arrays.                              *)
(***************************************************************************)
Min(x, y) == IF x <= y THEN x ELSE y

Abs(x) == IF x < 0 THEN -x ELSE x

Put(f, k, v) == [x \in (DOMAIN f) \cup {k} |-> IF x = k THEN v ELSE f[x]]

Remove(f, k) == [x \in (DOMAIN f) \ {k} |-> f[x]]

EmptyMap == [x \in {} |-> 0]

Dot(u, v) == u[1] * v[1] + u[2] * v[2]

\* index[query]: the scores of one query vector against every stored
\* vector, as an array indexed by position.
Scores(store, q) == [p \in 0..(Len(store) - 1) |-> Dot(store[p + 1], q)]

\* numpy.argsort(sims)[::-1]: positions by descending score.  For arrays
\* this small argsort is an insertion sort (stable, ascending), so after
\* the reversal equal scores come with the higher position first.
RECURSIVE ArgsortFrom(_, _)
ArgsortFrom(a, left) ==
    IF left = {} THEN <<>>
    ELSE LET top == CHOOSE p \in left :
                       \A q \in left : a[p] > a[q] \/ (a[p] = a[q] /\ p >= q)
         IN <<top>> \o ArgsortFrom(a, left \ {top})

\* numpy.argsort(sims) without the [::-1]: ascending
ArgsortAscending(a) ==
    LET d == ArgsortFrom(a, DOMAIN a)
    IN [i \in 1..Len(d) |-> d[Len(d) + 1 - i]]

ArgsortDesc(a) == ArgsortFrom(a, DOMAIN a)

\* sorted(items, key=lambda item: -item[1]): stable, descending by score.
InsertSorted(s, x) ==
    LET k == Cardinality({i \in 1..Len(s) : s[i][2] >= x[2]})
    IN SubSeq(s, 1, k) \o <<x>> \o SubSeq(s, k + 1, Len(s))

RECURSIVE SortedDesc(_)
SortedDesc(s) ==
    IF s = <<>> THEN <<>>
    ELSE InsertSorted(SortedDesc(SubSeq(s, 1, Len(s) - 1)), s[Len(s)])

(***************************************************************************)
(* merge_sim and the SimIndex methods, as functions of the index state     *)
(* S = [qindex, id2pos, pos2id, id2sims, length].                          *)
(***************************************************************************)
\* merge_sim without the [: TOP_SIMS] slice
merge_sim_unclipped(oldsims, newsims) == SortedDesc(oldsims \o newsims)

\* merge_sim slicing before it sorts
merge_sim_clips_first(oldsims, newsims) ==
    LET s == oldsims \o newsims
    IN SortedDesc(SubSeq(s, 1, Min(TOP_SIMS, Len(s))))

merge_sim(oldsims, newsims) ==
    LET s == SortedDesc(oldsims \o newsims)
    IN SubSeq(s, 1, Min(TOP_SIMS, Len(s)))

\* the loop of sims2scores over the sorted positions
RECURSIVE Collect(_, _, _, _)
Collect(p2i, a, order, result) ==
    IF order = <<>> THEN result
    ELSE LET pos == Head(order)
         IN IF pos \in DOMAIN p2i
            THEN LET r == Append(result, <<p2i[pos], a[pos]>>)
                 IN IF Len(r) = TOP_SIMS THEN r
                    ELSE Collect(p2i, a, Tail(order), r)
            ELSE Collect(p2i, a, Tail(order), result)

\* SimIndex.sims2scores, reading the pos2id it is given
sims2scores(p2i, sims) ==
    LET a == [p \in DOMAIN sims |-> Abs(sims[p])]
    IN Collect(p2i, a, ArgsortDesc(a), <<>>)

\* updateids without the del self.pos2id[self.id2pos[docid]] of a re-added id
RECURSIVE updateids_keeps_old(_, _)
updateids_keeps_old(S, docids) ==
    IF docids = <<>> THEN S
    ELSE LET docid == Head(docids)
             S1 == [S EXCEPT !.id2pos = Put(S.id2pos, docid, S.length),
                             !.pos2id = Put(S.pos2id, S.length, docid),
                             !.length = S.length + 1]
         IN updateids_keeps_old(S1, Tail(docids))

\* updateids taking the number of live documents for the next position
RECURSIVE updateids_by_size(_, _)
updateids_by_size(S, docids) ==
    IF docids = <<>> THEN S
    ELSE LET docid == Head(docids)
             new == Cardinality(DOMAIN S.id2pos)
             p2i == IF docid \in DOMAIN S.id2pos
                    THEN Remove(S.pos2id, S.id2pos[docid])
                    ELSE S.pos2id
             S1 == [S EXCEPT !.id2pos = Put(S.id2pos, docid, new),
                             !.pos2id = Put(p2i, new, docid),
                             !.length = S.length + 1]
         IN updateids_by_size(S1, Tail(docids))

RECURSIVE updateids(_, _)
updateids(S, docids) ==
    IF docids = <<>> THEN S
    ELSE LET docid == Head(docids)
             p2i == IF docid \in DOMAIN S.id2pos
                    THEN Remove(S.pos2id, S.id2pos[docid])
                    ELSE S.pos2id
             S1 == [S EXCEPT !.id2pos = Put(S.id2pos, docid, S.length),
                             !.pos2id = Put(p2i, S.length, docid),
                             !.length = S.length + 1]
         IN updateids(S1, Tail(docids))

BatchIds(docs) == [i \in 1..Len(docs) |-> docs[i][1]]

BatchVecs(docs) == [i \in 1..Len(docs) |-> docs[i][2]]

\* "update precomputed most similar for old documents": the loop over the
\* positions of qindex, from pos on.  tmpindex holds the batch's vectors.
RECURSIVE OldPass(_, _, _)
OldPass(S, tmpindex, pos) ==
    IF pos = Len(S.qindex) THEN [S |-> S, ok |-> TRUE]
    ELSE IF pos \notin DOMAIN S.pos2id THEN [S |-> S, ok |-> FALSE]
    ELSE LET docid == S.pos2id[pos]
             sims == sims2scores(S.pos2id, Scores(tmpindex, S.qindex[pos + 1]))
         IN IF docid \notin DOMAIN S.id2sims THEN [S |-> S, ok |-> FALSE]
            ELSE OldPass([S EXCEPT !.id2sims[docid] = merge_sim(@, sims)],
                         tmpindex, pos + 1)

\* qindex.add_documents(...); qindex.save()
AddDocuments(S, vectors) == [S EXCEPT !.qindex = @ \o vectors]

\* "precompute most similar for the newly added documents", from the
\* batch's j-th document on.
\* the new-document pass with pos never incremented: every list is stored
\* under the first id of the batch
RECURSIVE NewPass_no_increment(_, _, _)
NewPass_no_increment(S, docs, j) ==
    IF j > Len(docs) THEN S
    ELSE LET sims == sims2scores(S.pos2id, Scores(S.qindex, docs[j][2]))
         IN NewPass_no_increment([S EXCEPT !.id2sims = Put(@, docs[1][1], sims)],
                                 docs, j + 1)

RECURSIVE NewPass(_, _, _)
NewPass(S, docs, j) ==
    IF j > Len(docs) THEN S
    ELSE LET sims == sims2scores(S.pos2id, Scores(S.qindex, docs[j][2]))
         IN NewPass([S EXCEPT !.id2sims = Put(@, docs[j][1], sims)], docs, j + 1)

\* index_documents precomputing the new documents' lists before updateids
index_documents_early_precompute(S, pre, docs) ==
    IF ~pre
    THEN [S |-> updateids(AddDocuments(S, BatchVecs(docs)), BatchIds(docs)),
          ok |-> TRUE]
    ELSE LET old == OldPass(S, BatchVecs(docs), 0)
         IN IF ~old.ok THEN old
            ELSE [S |-> updateids(NewPass(AddDocuments(old.S, BatchVecs(docs)),
                                          docs, 1), BatchIds(docs)),
                  ok |-> TRUE]

\* SimIndex.index_documents as a whole: the state it leaves and whether it
\* returned (ok) or raised.
index_documents(S, pre, docs) ==
    IF ~pre
    THEN [S |-> updateids(AddDocuments(S, BatchVecs(docs)), BatchIds(docs)),
          ok |-> TRUE]
    ELSE LET old == OldPass(S, BatchVecs(docs), 0)
         IN IF ~old.ok THEN old
            ELSE [S |-> NewPass(updateids(AddDocuments(old.S, BatchVecs(docs)),
                                          BatchIds(docs)), docs, 1),
                  ok |-> TRUE]

Inverse(i2p) ==
    [p \in {i2p[k] : k \in DOMAIN i2p} |-> CHOOSE k \in DOMAIN i2p : i2p[k] = p]

\* SimIndex.delete: the loop of del self.id2pos[docid], then the rebuild
\* of pos2id and the assertion.
RECURSIVE DeleteLoop(_, _)
DeleteLoop(i2p, docids) ==
    IF docids = <<>> THEN [id2pos |-> i2p, ok |-> TRUE]
    ELSE IF Head(docids) \notin DOMAIN i2p THEN [id2pos |-> i2p, ok |-> FALSE]
    ELSE DeleteLoop(Remove(i2p, Head(docids)), Tail(docids))

delete(S, docids) ==
    LET r == DeleteLoop(S.id2pos, docids)
    IN IF ~r.ok THEN [S |-> [S EXCEPT !.id2pos = r.id2pos], ok |-> FALSE]
       ELSE LET S1 == [S EXCEPT !.id2pos = r.id2pos, !.pos2id = Inverse(r.id2pos)]
            IN [S |-> S1,
                ok |-> Cardinality(DOMAIN S1.pos2id) = Cardinality(DOMAIN S1.id2pos)]

\* SimIndex.sims_by_id: the list returned, or ok = FALSE for a KeyError
sims_by_id(S, pre, docid) ==
    IF pre
    THEN IF docid \in DOMAIN S.id2sims
         THEN [ok |-> TRUE, result |-> S.id2sims[docid]]
         ELSE [ok |-> FALSE, result |-> <<>>]
    ELSE IF docid \in DOMAIN S.id2pos
         THEN [ok |-> TRUE,
               result |-> sims2scores(S.pos2id,
                              Scores(S.qindex, S.qindex[S.id2pos[docid] + 1]))]
         ELSE [ok |-> FALSE, result |-> <<>>]

\* SimIndex.sims_by_doc; before the first index_documents call there is no
\* qindex attribute and the call raises.
sims_by_doc(S, vec) ==
    IF S.length = 0 THEN [ok |-> FALSE, result |-> <<>>]
    ELSE [ok |-> TRUE, result |-> sims2scores(S.pos2id, Scores(S.qindex, vec))]

(***************************************************************************)
(* The state machine.                                                      *)
(***************************************************************************)
Cur == [qindex |-> qindex, id2pos |-> id2pos, pos2id |-> pos2id,
        id2sims |-> id2sims, length |-> length]

Install(S) ==
    /\ qindex' = S.qindex
    /\ id2pos' = S.id2pos
    /\ pos2id' = S.pos2id
    /\ id2sims' = S.id2sims
    /\ length' = S.length

Empty == [qindex |-> <<>>, id2pos |-> EmptyMap, pos2id |-> EmptyMap,
          id2sims |-> EmptyMap, length |-> 0]

NoCall == [op |-> "none", ok |-> TRUE, docs |-> <<>>, ids |-> <<>>, pre |-> Empty]

NoQuery == [op |-> "none", docid |-> "", vec |-> <<>>, ok |-> TRUE, result |-> <<>>]

NoPending == [docs |-> <<>>, pre |-> Empty]

\* fresh_docs: a dict id -> document, in the order of its keys().  A dict
\* has each id once; batches are non-empty (what the Similarity index does
\* with an empty corpus is outside this file).
Batches ==
    {docs \in UNION {[1..n -> Docs] : n \in 1..MaxBatch} :
        \A i, j \in 1..Len(docs) :
            i < j => KeyOrder[docs[i][1]] < KeyOrder[docs[j][1]]}

\* the ids handed to delete, in the order they are iterated
DeleteArgs ==
    {ids \in UNION {[1..n -> DocIds] : n \in 1..MaxDel} :
        \A i, j \in 1..Len(ids) : ids[i] = ids[j] => i = j}

NoServed == [op |-> "none", ok |-> TRUE]

\* SimIndex.__init__, inside a SimServer fresh from SimServer.__init__
Init ==
    /\ precompute \in BOOLEAN
    /\ qindex = <<>>
    /\ id2pos = EmptyMap
    /\ pos2id = EmptyMap
    /\ id2sims = EmptyMap
    /\ length = 0
    /\ last = NoCall
    /\ query = NoQuery
    /\ raised = FALSE
    /\ calls = <<>>
    /\ pc = "idle"
    /\ pending = NoPending
    /\ simmodel = FALSE
    /\ simindex = FALSE
    /\ fresh_docs = EmptyMap
    /\ added = <<>>
    /\ served = NoServed

IndexDocuments(docs) ==
    /\ pc = "idle"
    /\ Len(calls) < MaxCalls
    /\ length + Len(docs) <= MaxLen
    /\ LET r == index_documents(Cur, precompute, docs)
       IN /\ Install(r.S)
          /\ last' = [op |-> "index_documents", ok |-> r.ok, docs |-> docs,
                      ids |-> BatchIds(docs), pre |-> Cur]
          /\ raised' = (raised \/ ~r.ok)
    /\ calls' = Append(calls, <<"index_documents", BatchIds(docs)>>)
    /\ query' = NoQuery
    /\ UNCHANGED <<precompute, pc, pending>>
    /\ UNCHANGED srv

Delete(docids) ==
    /\ pc = "idle"
    /\ Len(calls) < MaxCalls
    /\ LET r == delete(Cur, docids)
       IN /\ Install(r.S)
          /\ last' = [op |-> "delete", ok |-> r.ok, docs |-> <<>>,
                      ids |-> docids, pre |-> Cur]
          /\ raised' = (raised \/ ~r.ok)
    /\ calls' = Append(calls, <<"delete", docids>>)
    /\ query' = NoQuery
    /\ UNCHANGED <<precompute, pc, pending>>
    /\ UNCHANGED srv

SimsById(docid) ==
    /\ LET r == sims_by_id(Cur, precompute, docid)
       IN query' = [op |-> "sims_by_id", docid |-> docid, vec |-> <<>>,
                    ok |-> r.ok, result |-> r.result]
    /\ UNCHANGED <<precompute, qindex, id2pos, pos2id, id2sims, length,
                   last, raised, calls, pc, pending>>
    /\ UNCHANGED srv

SimsByDoc(vec) ==
    /\ LET r == sims_by_doc(Cur, vec)
       IN query' = [op |-> "sims_by_doc", docid |-> "", vec |-> vec,
                    ok |-> r.ok, result |-> r.result]
    /\ UNCHANGED <<precompute, qindex, id2pos, pos2id, id2sims, length,
                   last, raised, calls, pc, pending>>
    /\ UNCHANGED srv

\* the mutating calls alone
Next ==
    \/ \E docs \in Batches : IndexDocuments(docs)
    \/ \E docids \in DeleteArgs : Delete(docids)

Spec == Init /\ [][Next]_vars

\* the mutating calls and the queries between them
NextQuery ==
    \/ \E docs \in Batches : IndexDocuments(docs)
    \/ \E docids \in DeleteArgs : Delete(docids)
    \/ \E docid \in DocIds : SimsById(docid)
    \/ \E vec \in Vecs : SimsByDoc(vec)

SpecQuery == Init /\ [][NextQuery]_vars

(***************************************************************************)
(* index_documents pass by pass, for queries that arrive while a call is   *)
(* in flight (a SimServer is shared between clients; neither it nor        *)
(* SimIndex takes a lock).  Each step is one pass of the method: the       *)
(* update of the old documents' lists, qindex.add_documents, updateids,    *)
(* and the precomputation for the new documents.                           *)
(***************************************************************************)
Completed(ok) ==
    [op |-> "index_documents", ok |-> ok, docs |-> pending'.docs,
     ids |-> BatchIds(pending'.docs), pre |-> pending'.pre]

\* the call starts: with precompute the pass over the old documents (which
\* may raise), without it qindex.add_documents
StepBegin(docs) ==
    /\ pc = "idle"
    /\ Len(calls) < MaxCalls
    /\ length + Len(docs) <= MaxLen
    /\ pending' = [docs |-> docs, pre |-> Cur]
    /\ calls' = Append(calls, <<"index_documents", BatchIds(docs)>>)
    /\ IF precompute
       THEN LET old == OldPass(Cur, BatchVecs(docs), 0)
            IN /\ Install(old.S)
               /\ pc' = IF old.ok THEN "merged" ELSE "idle"
               /\ last' = IF old.ok THEN last ELSE Completed(FALSE)
               /\ raised' = (raised \/ ~old.ok)
       ELSE /\ Install(AddDocuments(Cur, BatchVecs(docs)))
            /\ pc' = "added"
            /\ UNCHANGED <<last, raised>>
    /\ query' = NoQuery
    /\ UNCHANGED precompute
    /\ UNCHANGED srv

StepAddDocuments ==
    /\ pc = "merged"
    /\ Install(AddDocuments(Cur, BatchVecs(pending.docs)))
    /\ pc' = "added"
    /\ query' = NoQuery
    /\ UNCHANGED <<precompute, last, raised, calls, pending>>
    /\ UNCHANGED srv

StepUpdateIds ==
    /\ pc = "added"
    /\ Install(updateids(Cur, BatchIds(pending.docs)))
    /\ pc' = IF precompute THEN "mapped" ELSE "idle"
    /\ pending' = pending
    /\ last' = IF precompute THEN last ELSE Completed(TRUE)
    /\ query' = NoQuery
    /\ UNCHANGED <<precompute, raised, calls>>
    /\ UNCHANGED srv

StepNewPass ==
    /\ pc = "mapped"
    /\ Install(NewPass(Cur, pending.docs, 1))
    /\ pc' = "idle"
    /\ pending' = pending
    /\ last' = Completed(TRUE)
    /\ query' = NoQuery
    /\ UNCHANGED <<precompute, raised, calls>>
    /\ UNCHANGED srv

NextConc ==
    \/ \E docs \in Batches : StepBegin(docs)
    \/ StepAddDocuments
    \/ StepUpdateIds
    \/ StepNewPass
    \/ \E docids \in DeleteArgs : Delete(docids)
    \/ \E docid \in DocIds : SimsById(docid)
    \/ \E vec \in Vecs : SimsByDoc(vec)

SpecConc == Init /\ [][NextConc]_vars

(***************************************************************************)
(* SimServer: the model, the index and the buffer of fresh documents.     *)
(* The server builds its SimIndex with the default precompute=True and    *)
(* never calls SimIndex.delete.                                            *)
(***************************************************************************)
\* what a client sends to add_documents, or as corpus: a sequence of
\* documents in which an id may occur more than once
Corpora == UNION {[1..n -> Docs] : n \in 1..MaxCorpus}

\* score thresholds and result limits clients ask for
MinScores == {0, 20, 26}

MaxResults == {-1, 0, 1}

\* add_documents leaving an id that is already buffered alone
RECURSIVE add_documents_keeps_first(_, _)
add_documents_keeps_first(F, documents) ==
    IF documents = <<>> THEN F
    ELSE LET doc == Head(documents)
         IN add_documents_keeps_first(
                IF doc[1] \in DOMAIN F THEN F ELSE Put(F, doc[1], doc[2]),
                Tail(documents))

\* SimServer.add_documents: self.fresh_docs[docid] = doc for each document
RECURSIVE add_documents(_, _)
add_documents(F, documents) ==
    IF documents = <<>> THEN F
    ELSE LET doc == Head(documents)
         IN add_documents(Put(F, doc[1], doc[2]), Tail(documents))

\* fresh_docs.keys(), and the documents in that order as index_documents
\* reads them
Keys(F) ==
    CHOOSE s \in [1..Cardinality(DOMAIN F) -> DOMAIN F] :
        \A i, j \in DOMAIN s : i < j => KeyOrder[s[i]] < KeyOrder[s[j]]

Items(F) == [i \in DOMAIN Keys(F) |-> <<Keys(F)[i], F[Keys(F)[i]]>>]

\* the buffer index() and train() work on: flush and add_documents(corpus)
\* when a corpus is given, else what add_documents has collected
Buffered(given, corpus) ==
    IF given THEN add_documents(EmptyMap, corpus) ELSE fresh_docs

\* the loop of find_similar with the test 0 < max_results left out
RECURSIVE FindLoop_zero_limits(_, _, _, _)
FindLoop_zero_limits(sims, min_score, max_results, result) ==
    IF sims = <<>> THEN result
    ELSE IF Head(sims)[2] < min_score \/ max_results <= Len(result)
         THEN result
         ELSE FindLoop_zero_limits(Tail(sims), min_score, max_results,
                                   Append(result, Head(sims)))

\* the loop of find_similar: stop at the first score below min_score or
\* once max_results (if positive) pairs are collected
RECURSIVE FindLoop(_, _, _, _)
FindLoop(sims, min_score, max_results, result) ==
    IF sims = <<>> THEN result
    ELSE IF \/ Head(sims)[2] < min_score
            \/ (0 < max_results /\ max_results <= Len(result))
         THEN result
         ELSE FindLoop(Tail(sims), min_score, max_results,
                       Append(result, Head(sims)))

\* SimServer.find_similar: by id when doc is a string, else by the vector
\* of the document; raises when there is no index (or no model to convert
\* the document) and when the index query raises
find_similar(S, pre, hasindex, hasmodel, byid, docid, vec, min_score, max_results) ==
    LET failed == [ok |-> FALSE, result |-> <<>>]
        sims == IF ~hasindex THEN failed
                ELSE IF byid THEN sims_by_id(S, pre, docid)
                ELSE IF ~hasmodel THEN failed
                ELSE sims_by_doc(S, vec)
    IN IF ~sims.ok THEN failed
       ELSE [ok |-> TRUE,
             result |-> FindLoop(sims.result, min_score, max_results, <<>>)]

\* SimServer.__init__: no model, no index, an empty buffer; the index is
\* later built by SimIndex(self.basename + ".index"), precompute=True
InitServer == Init /\ precompute

SimServerAddDocuments(documents) ==
    /\ pc = "idle"
    /\ Len(calls) < MaxCalls
    /\ Len(added) + Len(documents) <= MaxAdded
    /\ fresh_docs' = add_documents(fresh_docs, documents)
    /\ added' = added \o documents
    /\ served' = [op |-> "add_documents", ok |-> TRUE]
    /\ calls' = Append(calls, <<"SimServer.add_documents", <<>>>>)
    /\ query' = NoQuery
    /\ UNCHANGED <<precompute, qindex, id2pos, pos2id, id2sims, length,
                   last, raised, pc, pending, simmodel, simindex>>

\* SimServer.train; training on an empty buffer is left out (SimModel is
\* outside this file)
SimServerTrain(given, corpus) ==
    /\ pc = "idle"
    /\ Len(calls) < MaxCalls
    /\ Buffered(given, corpus) # EmptyMap
    /\ simmodel' = TRUE
    /\ fresh_docs' = EmptyMap
    /\ added' = <<>>
    /\ served' = [op |-> "train", ok |-> TRUE]
    /\ calls' = Append(calls, <<"SimServer.train", <<>>>>)
    /\ query' = NoQuery
    /\ UNCHANGED <<precompute, qindex, id2pos, pos2id, id2sims, length,
                   last, raised, pc, pending, simindex>>

\* SimServer.index once the model check has passed: it takes the corpus or
\* the buffer, starts a new SimIndex when there is none (or an index without
\* live documents: "if not self.simindex" goes through SimIndex.__len__),
\* runs index_documents and flushes; an exception of index_documents leaves
\* the method before the flush.  Indexing an empty buffer is left out.
IndexWithModel(given, corpus) ==
    LET F == Buffered(given, corpus)
        base == IF simindex /\ Cardinality(DOMAIN id2pos) > 0 THEN Cur ELSE Empty
        r == index_documents(base, precompute, Items(F))
    IN /\ F # EmptyMap
       /\ base.length + Cardinality(DOMAIN F) <= MaxLen
       /\ Install(r.S)
       /\ simindex' = TRUE
       /\ last' = [op |-> "index_documents", ok |-> r.ok,
                   docs |-> Items(F), ids |-> Keys(F), pre |-> base]
       /\ raised' = (raised \/ ~r.ok)
       /\ fresh_docs' = IF r.ok THEN EmptyMap ELSE F
       /\ added' = IF r.ok THEN <<>> ELSE IF given THEN corpus ELSE added
       /\ served' = [op |-> "index", ok |-> r.ok]
       /\ UNCHANGED simmodel

\* SimServer.index with the model check moved behind the handling of corpus
SimServerIndex_checks_late(given, corpus) ==
    /\ pc = "idle"
    /\ Len(calls) < MaxCalls
    /\ calls' = Append(calls, <<"SimServer.index", <<>>>>)
    /\ query' = NoQuery
    /\ IF ~simmodel
       THEN /\ served' = [op |-> "index", ok |-> FALSE]
            /\ fresh_docs' = Buffered(given, corpus)
            /\ added' = IF given THEN corpus ELSE added
            /\ UNCHANGED <<qindex, id2pos, pos2id, id2sims, length, last, raised,
                           simmodel, simindex>>
       ELSE IndexWithModel(given, corpus)
    /\ UNCHANGED <<precompute, pc, pending>>

\* SimServer.index: without a model it raises before anything else
SimServerIndex(given, corpus) ==
    /\ pc = "idle"
    /\ Len(calls) < MaxCalls
    /\ calls' = Append(calls, <<"SimServer.index", <<>>>>)
    /\ query' = NoQuery
    /\ IF ~simmodel
       THEN /\ served' = [op |-> "index", ok |-> FALSE]
            /\ UNCHANGED <<qindex, id2pos, pos2id, id2sims, length, last, raised,
                           simmodel, simindex, fresh_docs, added>>
       ELSE IndexWithModel(given, corpus)
    /\ UNCHANGED <<precompute, pc, pending>>

\* SimServer.drop_index; the dropped SimIndex object is gone, its fields
\* are reset to those of a new one
SimServerDropIndex(keep_model) ==
    /\ pc = "idle"
    /\ Len(calls) < MaxCalls
    /\ simindex' = FALSE
    /\ simmodel' = (keep_model /\ simmodel)
    /\ fresh_docs' = EmptyMap
    /\ added' = <<>>
    /\ Install(Empty)
    /\ last' = NoCall
    /\ served' = [op |-> "drop_index", ok |-> TRUE]
    /\ calls' = Append(calls, <<"SimServer.drop_index", <<>>>>)
    /\ query' = NoQuery
    /\ UNCHANGED <<precompute, raised, pc, pending>>

SimServerFindSimilar(byid, docid, vec, min_score, max_results) ==
    /\ LET r == find_similar(Cur, precompute, simindex, simmodel, byid, docid, vec,
                             min_score, max_results)
       IN query' = [op |-> "find_similar", docid |-> docid, vec |-> vec,
                    ok |-> r.ok, result |-> r.result, byid |-> byid,
                    min_score |-> min_score, max_results |-> max_results]
    /\ UNCHANGED <<precompute, qindex, id2pos, pos2id, id2sims, length,
                   last, raised, calls, pc, pending>>
    /\ UNCHANGED srv

\* the calls of a client that change the server
NextServer ==
    \/ \E documents \in Corpora : SimServerAddDocuments(documents)
    \/ SimServerTrain(FALSE, <<>>)
    \/ \E corpus \in Corpora : SimServerTrain(TRUE, corpus)
    \/ SimServerIndex(FALSE, <<>>)
    \/ \E corpus \in Corpora : SimServerIndex(TRUE, corpus)
    \/ \E keep_model \in BOOLEAN : SimServerDropIndex(keep_model)

SpecServer == InitServer /\ [][NextServer]_vars

\* the calls that build and drop the model and the index from a corpus
\* (here one that has each id once), and the queries between them
NextFind ==
    \/ \E corpus \in Batches : SimServerTrain(TRUE, corpus)
    \/ \E corpus \in Batches : SimServerIndex(TRUE, corpus)
    \/ \E keep_model \in BOOLEAN : SimServerDropIndex(keep_model)
    \/ \E docid \in DocIds, min_score \in MinScores, max_results \in MaxResults :
          SimServerFindSimilar(TRUE, docid, <<>>, min_score, max_results)
    \/ \E vec \in Vecs, min_score \in MinScores, max_results \in MaxResults :
          SimServerFindSimilar(FALSE, "", vec, min_score, max_results)

SpecFind == InitServer /\ [][NextFind]_vars

(***************************************************************************)
(* Properties.                                                             *)
(***************************************************************************)
Range(s) == {s[i] : i \in DOMAIN s}

PeerIds(sims) == {sims[i][1] : i \in DOMAIN sims}

\* id2pos and pos2id of S are exact inverses
InverseMaps(S) ==
    /\ \A id \in DOMAIN S.id2pos :
          S.id2pos[id] \in DOMAIN S.pos2id /\ S.pos2id[S.id2pos[id]] = id
    /\ Cardinality(DOMAIN S.pos2id) = Cardinality(DOMAIN S.id2pos)

\* C1: as long as every index_documents and delete call made so far has
\* completed (none raised), id2pos and pos2id are exact inverses:
\* pos2id[id2pos[id]] = id for every id, and the two have the same size.
C1_InverseAfterCompletedCalls == ~raised => InverseMaps(Cur)

\* C1 witness: a completed index_documents re-added a live id to an index
\* that already had a ghost position, after completed calls only.
C1_Witness ==
    /\ ~raised
    /\ last.op = "index_documents"
    /\ last.pre.length > Cardinality(DOMAIN last.pre.id2pos)
    /\ \E id \in Range(last.ids) : id \in DOMAIN last.pre.id2pos
    /\ Cardinality(DOMAIN id2pos) >= 2

\* C2: with precompute, after index_documents has added one new document C,
\* every old live document A whose score against C ranks in A's top
\* TOP_SIMS has C in id2sims[A]; and after [1,0], [0,1] and then a third
\* document equal to the first, the first's list ranks the third above the
\* second.
C2_NewDocMergedIntoOldLists ==
    (precompute /\ last.op = "index_documents" /\ last.ok /\ Len(last.docs) = 1
        /\ last.ids[1] \notin DOMAIN last.pre.id2pos)
    => LET C == last.ids[1]
           P == last.pre
       IN /\ \A A \in DOMAIN P.id2pos :
                LET s == Abs(Dot(P.qindex[P.id2pos[A] + 1], last.docs[1][2]))
                    before == P.id2sims[A]
                IN Cardinality({i \in DOMAIN before : before[i][2] >= s}) < TOP_SIMS
                   => C \in PeerIds(id2sims[A])
          /\ (P.qindex = <<(<<5, 0>>), (<<0, 5>>)>> /\ DOMAIN P.id2pos = {"a", "b"}
                /\ last.docs[1][2] = <<5, 0>>)
             => LET first == P.pos2id[0]
                    second == P.pos2id[1]
                    r == sims_by_id(Cur, precompute, first).result
                IN \E i \in DOMAIN r :
                      /\ r[i][1] = C
                      /\ \A j \in DOMAIN r : r[j][1] = second => i < j

\* C3: after a completed delete, sims_by_id of another live document
\* returns no pair whose id was deleted.
C3_DeletedNeverSurfaces ==
    (last.op = "delete" /\ last.ok /\ query.op = "sims_by_id" /\ query.ok
        /\ query.docid \in DOMAIN id2pos)
    => PeerIds(query.result) \cap Range(last.ids) = {}

\* C4: after index_documents({a,b,c}); delete({b}); index_documents({a: new
\* vector}) the last call has completed, id2pos[a] is the newly assigned
\* position and a's old position is no key of pos2id.
C4_ReaddAfterDelete ==
    (/\ calls = << <<"index_documents", <<"a", "b", "c">> >>,
                   <<"delete", <<"b">> >>,
                   <<"index_documents", <<"a">> >> >>
     /\ last.docs[1][2] # last.pre.qindex[last.pre.id2pos["a"] + 1])
    => /\ last.ok
       /\ "a" \in DOMAIN id2pos
       /\ id2pos["a"] = last.pre.length
       /\ id2pos["a"] # last.pre.id2pos["a"]
       /\ last.pre.id2pos["a"] \notin DOMAIN pos2id

\* C5: sims_by_id of an id with no entry in id2pos raises; it never returns
\* a list.
C5_UnmappedIdRaises ==
    (query.op = "sims_by_id" /\ query.docid \notin DOMAIN id2pos) => ~query.ok

\* C6: a delete naming an id that is not in id2pos raises, and leaves
\* id2pos and pos2id exact inverses (they were before the call).
C6_FailedDeleteKeepsInverse ==
    (last.op = "delete" /\ InverseMaps(last.pre)
        /\ \E id \in Range(last.ids) : id \notin DOMAIN last.pre.id2pos)
    => (~last.ok /\ InverseMaps(Cur))

\* C7: an index_documents call that raised has left the stored vectors,
\* length, id2pos, pos2id and every id2sims entry as they were.
C7_FailedIndexChangesNothing ==
    (last.op = "index_documents" /\ ~last.ok) => Cur = last.pre

\* the answer to query q on index state S
Answer(S, q) ==
    IF q.op = "sims_by_id" THEN sims_by_id(S, precompute, q.docid)
    ELSE sims_by_doc(S, q.vec)

\* C8: a query answered while an index_documents call is in flight gets
\* the answer of the state before the call or of the state after it.
C8_QuerySeesPreOrPost ==
    (pc # "idle" /\ query.op # "none")
    => LET post == index_documents(pending.pre, precompute, pending.docs).S
           got == [ok |-> query.ok, result |-> query.result]
       IN got = Answer(pending.pre, query) \/ got = Answer(post, query)

\* C9: with precompute, the id2sims entry of every live document lists no
\* peer twice and does not list the document itself.
C9_NoDuplicateNoSelf ==
    precompute =>
        \A id \in (DOMAIN id2pos) \cap (DOMAIN id2sims) :
            LET sims == id2sims[id]
            IN /\ \A i, j \in DOMAIN sims : sims[i][1] = sims[j][1] => i = j
               /\ id \notin PeerIds(sims)

\* C10: every id2sims entry holds at most TOP_SIMS pairs.
C10_CapInvariant ==
    \A id \in DOMAIN id2sims : Len(id2sims[id]) <= TOP_SIMS

\* C10 witness: more documents are live than the cap, an old document's
\* list was merged by the last index_documents call and is full.
C10_Witness ==
    /\ precompute
    /\ last.op = "index_documents"
    /\ last.ok
    /\ Cardinality(DOMAIN id2pos) > TOP_SIMS
    /\ \E id \in DOMAIN last.pre.id2pos :
          /\ id \notin Range(last.ids)
          /\ Len(last.pre.id2sims[id]) = TOP_SIMS
          /\ Len(id2sims[id]) = TOP_SIMS
          /\ id2sims[id] # last.pre.id2sims[id]

\* what sims2scores makes of the scores of query vector vec against the
\* store, in the current state
Ranked(vec) == sims2scores(pos2id, Scores(qindex, vec))

Occurrences(sims, id) == Cardinality({i \in DOMAIN sims : sims[i][1] = id})

\* C11 as stated: for every score array, the output of sims2scores is
\* sorted strictly descending by score, lists no id twice and lists only
\* ids of pos2id.
C11_StrictlyDescendingNoDuplicates ==
    \A vec \in Vecs :
        LET r == Ranked(vec)
        IN /\ \A i \in 1..(Len(r) - 1) : r[i][2] > r[i + 1][2]
           /\ \A id \in DocIds : Occurrences(r, id) <= 1
           /\ PeerIds(r) \subseteq Range(pos2id)

\* C11 amended: the output of sims2scores is sorted descending by score
\* with equal scores allowed, lists only ids of pos2id, and lists an id no
\* more often than pos2id has positions for it (so no id twice whenever
\* pos2id maps no two positions to one id).
C11_DescendingOnePairPerPosition ==
    \A vec \in Vecs :
        LET r == Ranked(vec)
        IN /\ \A i \in 1..(Len(r) - 1) : r[i][2] >= r[i + 1][2]
           /\ \A id \in DocIds :
                 Occurrences(r, id) <= Cardinality({p \in DOMAIN pos2id : pos2id[p] = id})
           /\ PeerIds(r) \subseteq Range(pos2id)

\* C11 witness: two live documents score the same against a query, a ghost
\* position is skipped, and the output lists both documents.
C11_Witness ==
    /\ length > Cardinality(DOMAIN pos2id)
    /\ \E vec \in Vecs :
          LET r == Ranked(vec)
          IN Len(r) = 2 /\ r[1][2] = r[2][2] /\ r[1][1] # r[2][1] /\ r[1][2] > 0

\* C14: after index_documents({id: doc}) on a fresh index, sims_by_id(id)
\* and sims_by_doc(doc) return the same ranked list.
C14_RoundTrip ==
    (Len(calls) = 1 /\ last.op = "index_documents" /\ last.ok /\ Len(last.docs) = 1)
    => LET byid == sims_by_id(Cur, precompute, last.ids[1])
           bydoc == sims_by_doc(Cur, last.docs[1][2])
       IN byid.ok /\ bydoc.ok /\ byid.result = bydoc.result

\* C14 witness: one document indexed into a fresh precomputing index; the
\* query by its vector returns the document itself.
C14_Witness ==
    /\ precompute
    /\ Len(calls) = 1 /\ last.op = "index_documents" /\ last.ok /\ Len(last.docs) = 1
    /\ sims_by_doc(Cur, last.docs[1][2]).result = << <<last.ids[1], 25>> >>

\* the pairs the old-document pass of the last index_documents call merges
\* when it visits position p
MergedPairsAt(p) ==
    sims2scores(last.pre.pos2id, Scores(BatchVecs(last.docs), last.pre.qindex[p + 1]))

\* the pairs it merges into the list of the live document A
MergedPairs(A) == MergedPairsAt(last.pre.id2pos[A])

\* C16: with precompute, an index_documents call made in any reachable
\* state (ghost positions included) completes, and has merged into the
\* list of every live document outside the batch exactly once.
C16_IndexingAlwaysCompletes ==
    (precompute /\ last.op = "index_documents")
    => /\ last.ok
       /\ \A A \in (DOMAIN last.pre.id2pos) \ Range(last.ids) :
             id2sims[A] = merge_sim(last.pre.id2sims[A], MergedPairs(A))

\* C17: every step keeps length equal to the number of stored vectors and
\* never decreases it; a completed index_documents call with n documents
\* on a store of length L maps its ids to L..L+n-1 and makes length L+n;
\* delete leaves length and the store alone; a mapped position keeps its
\* id, and a newly mapped position is at or beyond the old length while
\* every mapped position is below length, so no position is ever mapped to
\* two different ids.
C17_PositionsNeverReused ==
    [][/\ length' >= length
       /\ length' = Len(qindex')
       /\ \A p \in DOMAIN pos2id' :
             /\ p < length'
             /\ p \in DOMAIN pos2id => pos2id'[p] = pos2id[p]
             /\ p \notin DOMAIN pos2id => p >= length
       /\ (calls' # calls /\ last'.op = "index_documents" /\ last'.ok)
          => /\ length' = length + Len(last'.ids)
             /\ \A j \in 1..Len(last'.ids) :
                   /\ id2pos'[last'.ids[j]] = length + j - 1
                   /\ pos2id'[length + j - 1] = last'.ids[j]
       /\ (calls' # calls /\ last'.op = "delete")
          => (length' = length /\ qindex' = qindex)
      ]_vars

\* C17 witness: a batch of two documents was indexed after a document had
\* been deleted, and one of the two re-adds a live id.
C17_Witness ==
    /\ last.op = "index_documents" /\ last.ok /\ Len(last.ids) = 2
    /\ \E i \in 1..Len(calls) : calls[i][1] = "delete"
    /\ last.pre.length > Cardinality(DOMAIN last.pre.id2pos)
    /\ \E id \in Range(last.ids) : id \in DOMAIN last.pre.id2pos
    /\ length = last.pre.length + 2

SortedByScore(sims) == \A i \in 1..(Len(sims) - 1) : sims[i][2] >= sims[i + 1][2]

\* res holds the TOP_SIMS highest-scoring pairs of old \o new, sorted
\* descending: it is a selection f of that many pairs of the concatenation,
\* no pair left out scores higher than a pair kept, and the pairs taken
\* from old keep their order.
MergeOK(old, new, res) ==
    LET cat == old \o new
    IN /\ Len(res) = Min(TOP_SIMS, Len(cat))
       /\ SortedByScore(res)
       /\ \E f \in [1..Len(res) -> 1..Len(cat)] :
             /\ \A k, l \in 1..Len(res) : f[k] = f[l] => k = l
             /\ \A k \in 1..Len(res) : res[k] = cat[f[k]]
             /\ \A j \in (1..Len(cat)) \ Range(f) :
                   \A k \in 1..Len(res) : cat[j][2] <= res[k][2]
             /\ \A k, l \in 1..Len(res) :
                   (k < l /\ f[k] <= Len(old) /\ f[l] <= Len(old)) => f[k] < f[l]

\* the positions whose visit by the old-document pass of the last call can
\* be read off the state after it: the id of the position is mapped at no
\* other position (its list was merged once) and is not in the batch (the
\* new-document pass did not overwrite the list)
MergedOnce ==
    {p \in DOMAIN last.pre.pos2id :
        /\ last.pre.pos2id[p] \notin Range(last.ids)
        /\ \A q \in DOMAIN last.pre.pos2id :
              last.pre.pos2id[q] = last.pre.pos2id[p] => q = p}

\* C18: each merge_sim(old, new) made by the last completed index_documents
\* call, old being sorted descending, returned the TOP_SIMS highest-scoring
\* pairs of old + new sorted descending, previously cached peers in their
\* old order.
C18_MergeKeepsTopK ==
    (precompute /\ last.op = "index_documents" /\ last.ok)
    => \A p \in MergedOnce :
          LET A == last.pre.pos2id[p]
          IN SortedByScore(last.pre.id2sims[A])
             => MergeOK(last.pre.id2sims[A], MergedPairsAt(p), id2sims[A])

\* C18 witness: a full list was merged with a pair that scores higher than
\* its last pair, which was dropped.
C18_Witness ==
    /\ precompute /\ last.op = "index_documents" /\ last.ok
    /\ \E p \in MergedOnce :
          LET A == last.pre.pos2id[p]
              old == last.pre.id2sims[A]
          IN /\ Len(old) = TOP_SIMS
             /\ MergedPairsAt(p) # <<>>
             /\ MergedPairsAt(p)[1][2] > old[Len(old)][2]
             /\ id2sims[A][1] = old[1]
             /\ id2sims[A] # old

\* C19: a completed delete(ids) removes exactly the given ids from id2pos
\* and their positions from pos2id and changes nothing else.
C19_DeleteFrame ==
    (last.op = "delete" /\ last.ok)
    => LET P == last.pre
           gone == {P.id2pos[id] : id \in Range(last.ids)}
       IN /\ id2pos = [id \in (DOMAIN P.id2pos) \ Range(last.ids) |-> P.id2pos[id]]
          /\ pos2id = [p \in (DOMAIN P.pos2id) \ gone |-> P.pos2id[p]]
          /\ length = P.length
          /\ qindex = P.qindex
          /\ id2sims = P.id2sims

\* C20: with precompute every live id has an id2sims entry, and after a
\* completed index_documents call the entry of each document of the batch
\* is the ranking of its vector against the whole updated store.
C20_LiveIdsHaveEntries ==
    precompute
    => /\ DOMAIN id2pos \subseteq DOMAIN id2sims
       /\ (last.op = "index_documents" /\ last.ok)
          => \A j \in 1..Len(last.docs) :
                id2sims[last.ids[j]] = Ranked(last.docs[j][2])

\* C20 witness: a batch of two was indexed and the list of one of its
\* documents names the other.
C20_Witness ==
    /\ precompute /\ last.op = "index_documents" /\ last.ok
    /\ Len(last.ids) >= 2
    /\ last.ids[2] \in PeerIds(id2sims[last.ids[1]])
    /\ DOMAIN id2pos \subseteq DOMAIN id2sims

\* the ranked list a find_similar query is answered from
Underlying ==
    IF query.byid THEN sims_by_id(Cur, precompute, query.docid).result
    ELSE sims_by_doc(Cur, query.vec).result

AtLeastMinScore(pair) == pair[2] >= query.min_score

\* C12: find_similar returns, in the same order, exactly the pairs of the
\* underlying ranked list with score >= min_score, cut to the first
\* max_results of them, and not cut when max_results <= 0.
C12_FilterThenTruncate ==
    (query.op = "find_similar" /\ query.ok)
    => LET kept == SelectSeq(Underlying, AtLeastMinScore)
       IN query.result = IF query.max_results <= 0 THEN kept
                         ELSE SubSeq(kept, 1, Min(query.max_results, Len(kept)))

\* C12 witness: a query with max_results = 0 (no limit) on a list of two
\* pairs got the first and not the second, which scores below min_score.
C12_Witness ==
    /\ query.op = "find_similar" /\ query.ok
    /\ query.max_results = 0
    /\ Len(Underlying) = 2
    /\ Len(query.result) = 1
    /\ query.result[1][2] >= query.min_score
    /\ Underlying[2][2] < query.min_score

\* C13: SimServer.index called while there is no model raises and changes
\* nothing: no index is created, the buffer is kept, the index keeps its
\* vectors and mappings.
C13_IndexWithoutModelChangesNothing ==
    [][(calls' # calls /\ served'.op = "index" /\ ~simmodel)
       => /\ ~served'.ok
          /\ UNCHANGED <<simmodel, simindex, fresh_docs,
                         qindex, id2pos, pos2id, id2sims, length>>
      ]_vars

\* C13 witness: index raised after train and drop_index had left the
\* server without a model.
C13_Witness ==
    /\ served.op = "index" /\ ~served.ok /\ ~simmodel /\ ~simindex
    /\ Len(calls) = 3
    /\ calls[1][1] = "SimServer.train"
    /\ calls[2][1] = "SimServer.drop_index"

\* the buffer one reads off a sequence of documents: each id with the
\* document of its last occurrence
LastWins(documents) ==
    [id \in {documents[i][1] : i \in DOMAIN documents} |->
        LET i == CHOOSE k \in DOMAIN documents :
                     /\ documents[k][1] = id
                     /\ \A j \in DOMAIN documents : j > k => documents[j][1] # id
        IN documents[i][2]]

\* C15: the buffer built by the add_documents calls since the last flush
\* is the buffer of one call with the concatenation of their batches, an
\* id keeps its last document, and the buffer is empty when index() or
\* train() has returned.
C15_BufferIsConcatenation ==
    /\ fresh_docs = add_documents(EmptyMap, added)
    /\ fresh_docs = LastWins(added)
    /\ ((served.op \in {"index", "train"} /\ served.ok) => fresh_docs = EmptyMap)

\* C15 witness: two add_documents calls, the second bringing a different
\* document for an id the first had buffered.
C15_Witness ==
    /\ Len(calls) = 2
    /\ calls[1][1] = "SimServer.add_documents"
    /\ calls[2][1] = "SimServer.add_documents"
    /\ \E i, j \in DOMAIN added :
          i < j /\ added[i][1] = added[j][1] /\ added[i][2] # added[j][2]
    /\ Cardinality(DOMAIN fresh_docs) < Len(added)

====
